---- MODULE Spec2Model ----
(***************************************************************************)
(* Model of the item CRUD API of ts-express-server: the in-memory store    *)
(* (models/item.ts), the five controllers (controllers/itemController.ts), *)
(* the router (routes/itemRoutes.ts), the error middleware                 *)
(* (middlewares/errorHandler.ts) and the middleware stack of app.ts.       *)
(***************************************************************************)
EXTENDS Integers, Sequences, FiniteSets, TLC

VARIABLES
    items,      \* models/item.ts: `export let items: Item[] = []`
    now,        \* the value Date.now() returns at this moment
    req,        \* the request served last: [op, param, body]
    res,        \* the response to it
    created,    \* history: every item ever pushed, in creation order
    mutated,    \* history: some update or delete has succeeded
    handlers,   \* statement-level runs of the controllers (SpecConc)
    serial,     \* history (SpecConc): store and response of a serial execution
    arrivals    \* history (SpecConc): requests arrived so far

vars == <<items, now, req, res, created, mutated, handlers, serial, arrivals>>

----------------------------------------------------------------------------
(* Bounds *)

MaxCreates == 3     \* successful creations in one behaviour
MaxClock == 2       \* Date.now() ranges over 1..MaxClock
MaxInFlight == 2    \* requests in flight together (SpecConc)
MaxArrivals == 4    \* requests arriving in one behaviour (SpecConc)

----------------------------------------------------------------------------
(* Values *)

Names == {"a", "b"}

\* req.body: undefined when no JSON body was parsed (`defined` is FALSE and
\* `name` is never read), else an object with a `name`.
NoBody == [defined |-> FALSE, name |-> ""]
Bodies == {NoBody} \cup {[defined |-> TRUE, name |-> n] : n \in Names}

\* Values of the :id route parameter: ids the clock can produce, an id it
\* cannot, text that is no number, a number with trailing text, a negative.
Params == { <<"1">>, <<"2">>, <<"9">>, <<"x">>, <<"1", "x">>, <<"-", "1">> }

----------------------------------------------------------------------------
(* parseInt(req.params.id, 10) *)

Digits == <<"0", "1", "2", "3", "4", "5", "6", "7", "8", "9">>
IsDigit(c) == \E d \in 1..Len(Digits) : Digits[d] = c
DigitVal(c) == (CHOOSE d \in 1..Len(Digits) : Digits[d] = c) - 1

RECURSIVE ParseDigits(_, _, _)
ParseDigits(s, i, acc) ==
    IF i > Len(s) \/ ~IsDigit(s[i]) THEN acc
    ELSE ParseDigits(s, i + 1, acc * 10 + DigitVal(s[i]))

NaN == [nan |-> TRUE, val |-> 0]

\* An optional sign, then the longest run of decimal digits; NaN when the
\* run is empty. Trailing characters are ignored.
parseInt(s) ==
    LET signed == Len(s) > 0 /\ s[1] \in {"-", "+"}
        start == IF signed THEN 2 ELSE 1
        sign == IF signed /\ s[1] = "-" THEN -1 ELSE 1
    IN IF start > Len(s) \/ ~IsDigit(s[start]) THEN NaN
       ELSE [nan |-> FALSE, val |-> sign * ParseDigits(s, start, 0)]

\* i.id === id, with NaN equal to nothing
StrictEq(n, id) == ~id.nan /\ n = id.val

----------------------------------------------------------------------------
(* Array operations on the store *)

\* Array.prototype.unshift, for comparison with push.
PushFront(s, e) == <<e>> \o s

\* items.push(newItem)
Push(s, e) == Append(s, e)

\* Array.prototype.findLastIndex, for comparison with findIndex.
FindLastIndex(s, id) ==
    IF \E i \in 1..Len(s) : StrictEq(s[i].id, id)
    THEN CHOOSE i \in 1..Len(s) :
            /\ StrictEq(s[i].id, id)
            /\ \A j \in (i + 1)..Len(s) : ~StrictEq(s[j].id, id)
    ELSE 0

\* Array.prototype.findIndex / find: the lowest matching position, 0 for
\* JavaScript's -1 / undefined (positions are 1-based here).
FindIndex(s, id) ==
    IF \E i \in 1..Len(s) : StrictEq(s[i].id, id)
    THEN CHOOSE i \in 1..Len(s) :
            /\ StrictEq(s[i].id, id)
            /\ \A j \in 1..(i - 1) : ~StrictEq(s[j].id, id)
    ELSE 0

\* Removal that fills the hole with the last element, for comparison with
\* splice.
SpliceSwap(s, i) ==
    IF i \in 1..Len(s)
    THEN SubSeq([s EXCEPT ![i] = s[Len(s)]], 1, Len(s) - 1)
    ELSE s

\* items.splice(i, 1): removes position i, later items shift down.
Splice(s, i) ==
    IF i \in 1..Len(s)
    THEN SubSeq(s, 1, i - 1) \o SubSeq(s, i + 1, Len(s))
    ELSE s

----------------------------------------------------------------------------
(* Responses *)

\* res.json of an Item: its id and name. `born` is a history field of the
\* model (the item's creation number) and is not part of the Item.
JsonItem(it) == [id |-> it.id, name |-> it.name]

JsonList(s) == [i \in 1..Len(s) |-> JsonItem(s[i])]

\* Nothing written by console.error.
NoError == [hasStatus |-> FALSE, status |-> 0, message |-> ""]

\* A fresh response object: statusCode 200, nothing sent.
NewRes ==
    [status |-> 200, kind |-> "none", body |-> <<>>, sent |-> 0,
     via |-> "none", caught |-> FALSE, logged |-> NoError]

Status(r, code) == [r EXCEPT !.status = code]

Json(r, kind, b) == [r EXCEPT !.kind = kind, !.body = b, !.sent = @ + 1]

NotFound(r) ==
    [Json(Status(r, 404), "message", [message |-> "Item not found"])
        EXCEPT !.via = "route"]

----------------------------------------------------------------------------
(* Error middleware and the middleware stack *)

\* AppError: an Error with an optional status.
TypeErrorNoBody ==
    [hasStatus |-> FALSE, status |-> 0,
     message |-> "Cannot destructure property 'name' of 'req.body' as it is undefined."]

TypeErrorNoElement ==
    [hasStatus |-> FALSE, status |-> 0,
     message |-> "Cannot set properties of undefined (setting 'name')"]

\* What express.json() raises for a body it rejects.
BodyParserErrors ==
    { [hasStatus |-> TRUE, status |-> 400, message |-> "Unexpected token"],
      [hasStatus |-> TRUE, status |-> 413, message |-> "request entity too large"] }

\* An error middleware that ignores err.status, for comparison.
errorHandlerAlways500(err, r) ==
    [Json(Status(r, 500), "message",
          [message |-> IF err.message # "" THEN err.message
                       ELSE "Internal Server Error"])
        EXCEPT !.via = "errorHandler", !.logged = err]

\* console.error(err);
\* res.status(err.status || 500).json({message: err.message || '...'})
\* `||` takes the right operand for every falsy left one: a missing status
\* and status 0, a missing message and the empty message.
errorHandler(err, r) ==
    [Json(Status(r, IF err.hasStatus /\ err.status # 0 THEN err.status ELSE 500),
          "message",
          [message |-> IF err.message # "" THEN err.message
                       ELSE "Internal Server Error"])
        EXCEPT !.via = "errorHandler", !.logged = err]

\* Express's built-in last resort when no error middleware follows: an
\* HTML page, not a JSON envelope.
finalhandler(err, r) ==
    [r EXCEPT !.status = IF err.hasStatus /\ err.status \in 400..599
                         THEN err.status ELSE 500,
              !.kind = "html", !.body = <<"<pre>", err.message, "</pre>">>,
              !.sent = @ + 1, !.via = "finalhandler"]

\* The stack with the error middleware registered before the routes, for
\* comparison.
AppStackErrorHandlerFirst == <<"express.json", "errorHandler", "itemRoutes">>

\* app.use(express.json()); app.use('/api/items', itemRoutes);
\* app.use(errorHandler)
AppStack == <<"express.json", "itemRoutes", "errorHandler">>

StackPos(name) == CHOOSE i \in 1..Len(AppStack) : AppStack[i] = name

\* next(err) called by the layer `from`: Express skips to the first error
\* middleware registered after it.
next(err, from, r) ==
    IF \E i \in (StackPos(from) + 1)..Len(AppStack) : AppStack[i] = "errorHandler"
    THEN errorHandler(err, r)
    ELSE finalhandler(err, r)

\* catch (error) { next(error); } in a controller
Catch(err, r) == next(err, "itemRoutes", [r EXCEPT !.caught = TRUE])

----------------------------------------------------------------------------
(* Controllers: each maps the store and the request to the store and the   *)
(* response it leaves behind.                                              *)

Route(r) == [r EXCEPT !.via = "route"]

\* createItem without its res.status(201), for comparison.
createItemStatus200(store, body, t, b) ==
    IF ~body.defined
    THEN [items |-> store, res |-> Catch(TypeErrorNoBody, NewRes)]
    ELSE LET newItem == [id |-> t, name |-> body.name, born |-> b]
         IN [items |-> Push(store, newItem),
             res |-> Route(Json(NewRes, "item", JsonItem(newItem)))]

\* `const { name } = req.body` throws a TypeError when req.body is
\* undefined; t is Date.now(), b the model's creation number.
createItem(store, body, t, b) ==
    IF ~body.defined
    THEN [items |-> store, res |-> Catch(TypeErrorNoBody, NewRes)]
    ELSE LET newItem == [id |-> t, name |-> body.name, born |-> b]
         IN [items |-> Push(store, newItem),
             res |-> Route(Json(Status(NewRes, 201), "item", JsonItem(newItem)))]

getItems(store) ==
    [items |-> store, res |-> Route(Json(NewRes, "list", JsonList(store)))]

getItemById(store, param) ==
    LET id == parseInt(param)
        i == FindIndex(store, id)
    IN IF i = 0
       THEN [items |-> store, res |-> NotFound(NewRes)]
       ELSE [items |-> store,
             res |-> Route(Json(NewRes, "item", JsonItem(store[i])))]

\* An assignment to every item with the id of item i, for comparison.
SetNameAll(store, i, name) ==
    [k \in 1..Len(store) |->
        IF store[k].id = store[i].id THEN [store[k] EXCEPT !.name = name]
        ELSE store[k]]

\* items[itemIndex].name = name
SetName(store, i, name) == [store EXCEPT ![i].name = name]

updateItem(store, param, body) ==
    LET id == parseInt(param)
    IN IF ~body.defined
       THEN [items |-> store, res |-> Catch(TypeErrorNoBody, NewRes)]
       ELSE LET itemIndex == FindIndex(store, id)
            IN IF itemIndex = 0
               THEN [items |-> store, res |-> NotFound(NewRes)]
               ELSE LET updated == SetName(store, itemIndex, body.name)
                    IN [items |-> updated,
                        res |-> Route(Json(NewRes, "item",
                                           JsonItem(updated[itemIndex])))]

\* deleteItem with the splice ahead of the -1 test, for comparison:
\* items.splice(-1, 1) removes the last item.
deleteItemSpliceFirst(store, param) ==
    LET id == parseInt(param)
        itemIndex == FindIndex(store, id)
    IN IF itemIndex = 0
       THEN [items |-> Splice(store, Len(store)), res |-> NotFound(NewRes)]
       ELSE [items |-> Splice(store, itemIndex),
             res |-> Route(Json(NewRes, "item", JsonItem(store[itemIndex])))]

deleteItem(store, param) ==
    LET id == parseInt(param)
        itemIndex == FindIndex(store, id)
    IN IF itemIndex = 0
       THEN [items |-> store, res |-> NotFound(NewRes)]
       ELSE [items |-> Splice(store, itemIndex),
             res |-> Route(Json(NewRes, "item", JsonItem(store[itemIndex])))]

----------------------------------------------------------------------------
(* Requests served one at a time, each handler run to completion *)

NoParam == <<>>

Init ==
    /\ items = <<>>
    /\ now = 1
    /\ req = [op |-> "none", param |-> NoParam, body |-> NoBody]
    /\ res = NewRes
    /\ created = <<>>
    /\ mutated = FALSE
    /\ handlers = <<>>
    /\ serial = [items |-> <<>>, res |-> NewRes]
    /\ arrivals = 0

\* Time passes between requests.
Tick ==
    /\ now < MaxClock
    /\ now' = now + 1
    /\ UNCHANGED <<items, req, res, created, mutated, handlers, serial, arrivals>>

\* router.post('/', createItem)
RoutePost ==
    \E body \in Bodies :
        /\ Len(created) < MaxCreates
        /\ LET out == createItem(items, body, now, Len(created) + 1)
           IN /\ items' = out.items
              /\ res' = out.res
              /\ created' = IF body.defined
                            THEN Append(created,
                                        [id |-> now, name |-> body.name,
                                         born |-> Len(created) + 1])
                            ELSE created
        /\ req' = [op |-> "createItem", param |-> NoParam, body |-> body]
        /\ UNCHANGED <<now, mutated, handlers, serial, arrivals>>

\* router.get('/', getItems)
RouteGetAll ==
    /\ LET out == getItems(items)
       IN items' = out.items /\ res' = out.res
    /\ req' = [op |-> "getItems", param |-> NoParam, body |-> NoBody]
    /\ UNCHANGED <<now, created, mutated, handlers, serial, arrivals>>

\* router.get('/:id', getItemById)
RouteGetOne ==
    \E param \in Params :
        /\ LET out == getItemById(items, param)
           IN items' = out.items /\ res' = out.res
        /\ req' = [op |-> "getItemById", param |-> param, body |-> NoBody]
        /\ UNCHANGED <<now, created, mutated, handlers, serial, arrivals>>

\* router.put('/:id', updateItem)
RoutePut ==
    \E param \in Params, body \in Bodies :
        /\ LET out == updateItem(items, param, body)
           IN /\ items' = out.items
              /\ res' = out.res
              /\ mutated' = (mutated \/ out.res.status = 200)
        /\ req' = [op |-> "updateItem", param |-> param, body |-> body]
        /\ UNCHANGED <<now, created, handlers, serial, arrivals>>

\* router.delete('/:id', deleteItem)
RouteDelete ==
    \E param \in Params :
        /\ LET out == deleteItem(items, param)
           IN /\ items' = out.items
              /\ res' = out.res
              /\ mutated' = (mutated \/ out.res.status = 200)
        /\ req' = [op |-> "deleteItem", param |-> param, body |-> NoBody]
        /\ UNCHANGED <<now, created, handlers, serial, arrivals>>

\* express.json() rejects the body of a POST or PUT and calls next(err);
\* no controller runs.
RejectBody ==
    \E err \in BodyParserErrors :
        /\ res' = next(err, "express.json", NewRes)
        /\ req' = [op |-> "express.json", param |-> NoParam, body |-> NoBody]
        /\ UNCHANGED <<items, now, created, mutated, handlers, serial, arrivals>>

Next ==
    \/ Tick
    \/ RoutePost
    \/ RouteGetAll
    \/ RouteGetOne
    \/ RoutePut
    \/ RouteDelete
    \/ RejectBody

Spec == Init /\ [][Next]_vars

----------------------------------------------------------------------------
(* Requests in flight together, the controllers run statement by statement *)
(* on Node's single thread: a controller first scans (parseInt, the        *)
(* destructuring, find / findIndex) and then, if it found its item,        *)
(* mutates and answers.                                                    *)

\* The requests that arrive while others are in flight.
ConcParams == { <<"1">>, <<"2">> }
ConcRequests ==
    {[op |-> "createItem", param |-> NoParam, body |-> b] : b \in Bodies \ {NoBody}}
    \cup {[op |-> "getItems", param |-> NoParam, body |-> NoBody]}
    \cup {[op |-> "getItemById", param |-> p, body |-> NoBody] : p \in ConcParams}
    \cup {[op |-> "updateItem", param |-> p, body |-> b] :
            p \in ConcParams, b \in Bodies \ {NoBody}}
    \cup {[op |-> "deleteItem", param |-> p, body |-> NoBody] : p \in ConcParams}

Remove(s, k) == SubSeq(s, 1, k - 1) \o SubSeq(s, k + 1, Len(s))

\* The whole controller for a request, as the one-request-at-a-time
\* actions above run it.
Whole(store, r, t, b) ==
    CASE r.op = "createItem" -> createItem(store, r.body, t, b)
      [] r.op = "getItems" -> getItems(store)
      [] r.op = "getItemById" -> getItemById(store, r.param)
      [] r.op = "updateItem" -> updateItem(store, r.param, r.body)
      [] r.op = "deleteItem" -> deleteItem(store, r.param)

\* A scheduler that may start a controller at any time, for comparison.
Preemptive == TRUE

\* The controllers are synchronous functions: no await, no callback
\* between their first and last statement. Node calls the next controller
\* only once the running one has returned.
RunToCompletion == \A k \in 1..Len(handlers) : handlers[k].pc # "scanned"

\* A request arrives on a connection and waits for the event loop.
Arrive ==
    \E r \in ConcRequests :
        /\ Len(handlers) < MaxInFlight
        /\ arrivals < MaxArrivals
        /\ arrivals' = arrivals + 1
        /\ r.op = "createItem" =>
              Len(created) + Cardinality({k \in 1..Len(handlers) :
                                            handlers[k].req.op = "createItem"})
                < MaxCreates
        /\ handlers' = Append(handlers,
                              [req |-> r, pc |-> "arrived", itemIndex |-> 0,
                               seen |-> <<>>])
        /\ UNCHANGED <<items, now, req, res, created, mutated, serial>>

\* The event loop calls the controller of a waiting request. It runs to
\* its response, or to the statement after its findIndex found the item.
Begin(k) ==
    LET h == handlers[k]
        r == h.req
        itemIndex == FindIndex(items, parseInt(r.param))
        b == Len(created) + 1
    IN /\ h.pc = "arrived"
       /\ RunToCompletion
       /\ IF /\ r.op \in {"updateItem", "deleteItem"}
             /\ r.op = "updateItem" => r.body.defined
             /\ itemIndex # 0
          THEN /\ handlers' = [handlers EXCEPT ![k].pc = "scanned",
                                               ![k].itemIndex = itemIndex,
                                               ![k].seen = items]
               /\ UNCHANGED <<items, res, created, serial>>
          ELSE /\ items' = Whole(items, r, now, b).items
               /\ res' = Whole(items, r, now, b).res
               /\ serial' = Whole(serial.items, r, now, b)
               /\ created' = IF r.op = "createItem" /\ r.body.defined
                             THEN Append(created,
                                         [id |-> now, name |-> r.body.name, born |-> b])
                             ELSE created
               /\ handlers' = Remove(handlers, k)
       /\ UNCHANGED <<now, req, mutated, arrivals>>

\* The controller goes on from its scan: the assignment or the splice at
\* the index it found, then res.json.
Finish(k) ==
    LET h == handlers[k]
        r == h.req
    IN /\ h.pc = "scanned"
       /\ IF h.itemIndex \in 1..Len(items)
          THEN IF r.op = "updateItem"
               THEN LET updated == SetName(items, h.itemIndex, r.body.name)
                    IN /\ items' = updated
                       /\ res' = Route(Json(NewRes, "item",
                                            JsonItem(updated[h.itemIndex])))
               ELSE /\ items' = Splice(items, h.itemIndex)
                    /\ res' = Route(Json(NewRes, "item", JsonItem(items[h.itemIndex])))
          ELSE \* no element at the index: the assignment throws a TypeError,
               \* splice(...)[0] is undefined and res.json sends no item
               /\ items' = items
               /\ res' = IF r.op = "updateItem"
                         THEN Catch(TypeErrorNoElement, NewRes)
                         ELSE Route(Json(NewRes, "none", <<>>))
       /\ serial' = Whole(serial.items, r, now, 0)
       /\ handlers' = Remove(handlers, k)
       /\ UNCHANGED <<now, req, created, mutated, arrivals>>

NextConc ==
    \/ Tick
    \/ Arrive
    \/ \E k \in 1..Len(handlers) : Begin(k)
    \/ \E k \in 1..Len(handlers) : Finish(k)

SpecConc == Init /\ [][NextConc]_vars

----------------------------------------------------------------------------
(* Helpers of the properties *)

Id(param) == parseInt(param)

Matches(store, param) == \E i \in 1..Len(store) : StrictEq(store[i].id, Id(param))

NeverInserted(param) == \A k \in 1..Len(created) : ~StrictEq(created[k].id, Id(param))

NotFoundEnvelope(r) ==
    /\ r.status = 404
    /\ r.kind = "message"
    /\ r.body = [message |-> "Item not found"]

\* A step that serves a request of controller `op`: every such step sets
\* req to that request, and only Tick moves the clock.
Served(op) == now' = now /\ req'.op = op

Borns(store) == [i \in 1..Len(store) |-> store[i].born]

----------------------------------------------------------------------------
(* Properties *)

\* C1: while only creations have changed the store, listAll answers 200
\* with exactly the created items in creation order; with nothing created
\* it answers the empty sequence.
C1_ListAllInCreationOrder ==
    (req.op = "getItems" /\ ~mutated) =>
        /\ res.status = 200
        /\ res.kind = "list"
        /\ res.body = JsonList(created)

C1_Witness ==
    /\ req.op = "getItems"
    /\ ~mutated
    /\ Len(created) >= 2
    /\ JsonItem(created[1]) # JsonItem(created[2])
    /\ res.body = <<JsonItem(created[1]), JsonItem(created[2])>>

\* C2: a getById of the id a create just returned answers the item that
\* create returned (same id, same name).
C2_CreateThenGetReturnsCreated ==
    [][ ( /\ req.op = "createItem"
          /\ res.status = 201
          /\ Served("getItemById")
          /\ Id(req'.param) = [nan |-> FALSE, val |-> res.body.id] )
        => ( /\ res'.status = 200
             /\ res'.kind = "item"
             /\ res'.body = res.body ) ]_vars

\* C3: a successful delete shortens the store by exactly one item, and a
\* getById of the same id issued directly afterwards answers NotFound.
C3_DeleteThenGetNotFound ==
    [][ /\ (Served("deleteItem") /\ res'.status = 200) => Len(items') = Len(items) - 1
        /\ ( /\ req.op = "deleteItem"
             /\ res.status = 200
             /\ Served("getItemById")
             /\ Id(req'.param) = Id(req.param) )
           => NotFoundEnvelope(res') ]_vars

\* C4: getById, update and delete of an id no item was ever created with
\* answer 404 {"message": "Item not found"}.
C4_NeverInsertedIsNotFound ==
    (req.op \in {"getItemById", "updateItem", "deleteItem"} /\ NeverInserted(req.param))
        => NotFoundEnvelope(res)

\* C5: a successful update leaves the length, the order and every other
\* item as they were, keeps the matched item's id, sets its name to the new
\* name, and answers that id with the new name.
C5_UpdateChangesOnlyName ==
    [][ (Served("updateItem") /\ res'.status = 200) =>
          \E i \in 1..Len(items) :
              /\ StrictEq(items[i].id, Id(req'.param))
              /\ Len(items') = Len(items)
              /\ \A k \in 1..Len(items) : k # i => items'[k] = items[k]
              /\ items'[i] = [items[i] EXCEPT !.name = req'.body.name]
              /\ res'.kind = "item"
              /\ res'.body = JsonItem([id |-> items[i].id, name |-> req'.body.name])
      ]_vars

C5_Witness ==
    /\ req.op = "updateItem"
    /\ res.status = 200
    /\ Len(items) >= 2
    /\ \E i \in 1..Len(items) :
          /\ StrictEq(items[i].id, Id(req.param))
          /\ items[i].name = req.body.name
          /\ created[items[i].born].name # items[i].name

\* C6: a create that does not fail answers 201 with the created item; a
\* listAll, and a getById, update or delete that finds its item, answer 200
\* with the sequence or the item; each sends exactly one response.
C6_SuccessStatuses ==
    [][ /\ (Served("createItem") /\ req'.body.defined) =>
              /\ res'.status = 201
              /\ res'.kind = "item"
              /\ res'.body = JsonItem([id |-> now, name |-> req'.body.name])
              /\ res'.sent = 1
        /\ Served("getItems") =>
              /\ res'.status = 200
              /\ res'.kind = "list"
              /\ res'.body = JsonList(items)
              /\ res'.sent = 1
        /\ ( \/ Served("getItemById") /\ Matches(items, req'.param)
             \/ Served("updateItem") /\ req'.body.defined /\ Matches(items, req'.param)
             \/ Served("deleteItem") /\ Matches(items, req'.param) ) =>
              /\ res'.status = 200
              /\ res'.kind = "item"
              /\ StrictEq(res'.body.id, Id(req'.param))
              /\ res'.sent = 1
      ]_vars

C6_Witness ==
    /\ req.op = "createItem"
    /\ req.body.defined
    /\ res.status = 201
    /\ res.kind = "item"
    /\ res.sent = 1

\* C7: a controller that throws hands the error to the error middleware
\* through its catch block; the request gets exactly one response, the JSON
\* envelope; the store is untouched, and the next request is served from it.
C7_HandlerFailureReachesErrorHandler ==
    [][ /\ ((Served("createItem") \/ Served("updateItem")) /\ ~req'.body.defined) =>
              /\ res'.caught
              /\ res'.via = "errorHandler"
              /\ res'.kind = "message"
              /\ res'.sent = 1
              /\ items' = items
        /\ (res.caught /\ Served("getItems")) =>
              /\ res'.status = 200
              /\ res'.body = JsonList(items)
      ]_vars

C7_Witness ==
    /\ req.op \in {"createItem", "updateItem"}
    /\ res.caught
    /\ res.via = "errorHandler"
    /\ res.kind = "message"
    /\ Len(items) >= 1

\* C8: the error middleware answers with the error's status when it has one
\* and 500 when it has none, and with the error's message, or "Internal
\* Server Error" for an error without message text.
C8_ErrorEnvelope ==
    (res.via = "errorHandler") =>
        /\ res.status = (IF res.logged.hasStatus THEN res.logged.status ELSE 500)
        /\ res.kind = "message"
        /\ res.body = [message |-> IF res.logged.message # "" THEN res.logged.message
                                   ELSE "Internal Server Error"]

C8_Witness ==
    /\ res.via = "errorHandler"
    /\ res.logged.hasStatus
    /\ res.status = 400
    /\ res.body = [message |-> "Unexpected token"]

\* The store is in creation order, and each item still has the id it was
\* created with.
C9_OrderInv ==
    /\ \A i, j \in 1..Len(items) : i < j => items[i].born < items[j].born
    /\ \A i \in 1..Len(items) :
          /\ items[i].born \in 1..Len(created)
          /\ items[i].id = created[items[i].born].id

\* C9: the items in the store are always in the order of their creation;
\* create adds at the end, update moves nothing, delete takes one position
\* out and closes the gap.
C9_InsertionOrderPreserved ==
    [][ /\ C9_OrderInv'
        /\ (Served("createItem") /\ req'.body.defined) =>
              Borns(items') = Append(Borns(items), Len(created'))
        /\ Served("updateItem") => Borns(items') = Borns(items)
        /\ (Served("deleteItem") /\ res'.status = 200) =>
              \E k \in 1..Len(items) :
                  Borns(items') = SubSeq(Borns(items), 1, k - 1)
                                    \o SubSeq(Borns(items), k + 1, Len(items))
      ]_vars

C9_Witness ==
    /\ req.op = "deleteItem"
    /\ res.status = 200
    /\ Len(items) = 2
    /\ items[1].born = 2
    /\ items[2].born = 3

\* C10: with requests in flight together, no controller starts while
\* another is between its scan and its mutation; the store a controller
\* mutates is the store it scanned; and the store and every response are
\* those of running the controllers whole, one after another, in the order
\* in which they finish.
C10_Atomic ==
    /\ Cardinality({k \in 1..Len(handlers) : handlers[k].pc = "scanned"}) <= 1
    /\ \A k \in 1..Len(handlers) :
          handlers[k].pc = "scanned" =>
              /\ items = handlers[k].seen
              /\ handlers[k].itemIndex = FindIndex(items, Id(handlers[k].req.param))
    /\ items = serial.items \/ \E k \in 1..Len(handlers) : handlers[k].pc = "scanned"
    /\ RunToCompletion => res = serial.res

C10_Witness ==
    /\ Len(handlers) = 2
    /\ handlers[1].pc = "scanned"
    /\ handlers[1].req.op = "deleteItem"
    /\ handlers[2].pc = "arrived"
    /\ handlers[2].req.op = "updateItem"
    /\ handlers[2].req.param = handlers[1].req.param
    /\ Len(items) >= 2

\* The positions of the items with the id of `param`, and the lowest.
Positions(store, param) == {i \in 1..Len(store) : StrictEq(store[i].id, Id(param))}

Lowest(store, param) ==
    CHOOSE i \in Positions(store, param) : \A j \in Positions(store, param) : i <= j

\* C11: when several items have the requested id, getById answers the one
\* at the lowest position, update renames only that one and delete removes
\* only that one; every other item, the others with that id included,
\* stays as it was and in place.
C11_DuplicatesLowestPosition ==
    [][ Cardinality(Positions(items, req'.param)) >= 2 =>
          LET i == Lowest(items, req'.param)
          IN /\ Served("getItemById") =>
                   /\ res'.status = 200
                   /\ res'.body = JsonItem(items[i])
                   /\ items' = items
             /\ (Served("updateItem") /\ req'.body.defined) =>
                   /\ res'.status = 200
                   /\ res'.body = JsonItem([items[i] EXCEPT !.name = req'.body.name])
                   /\ items' = [items EXCEPT ![i].name = req'.body.name]
             /\ Served("deleteItem") =>
                   /\ res'.status = 200
                   /\ res'.body = JsonItem(items[i])
                   /\ items' = SubSeq(items, 1, i - 1) \o SubSeq(items, i + 1, Len(items))
      ]_vars

C11_Witness ==
    /\ req.op = "deleteItem"
    /\ res.status = 200
    /\ Len(items) = 2
    /\ StrictEq(items[2].id, Id(req.param))
    /\ ~StrictEq(items[1].id, Id(req.param))
    /\ items[2].born = 3

\* C12: listAll, getById, and an update or delete that ends in NotFound
\* leave the store as it was: the same items, ids, names and order.
C12_ReadsAndNotFoundKeepStore ==
    [][ ( \/ Served("getItems")
          \/ Served("getItemById")
          \/ (Served("updateItem") \/ Served("deleteItem")) /\ res'.status = 404 )
        => items' = items ]_vars

C12_Witness ==
    /\ req.op \in {"updateItem", "deleteItem"}
    /\ res.status = 404
    /\ Len(items) >= 2
    /\ items[1].name # items[2].name

====
